---- MODULE Spec2Model ----
(***************************************************************************)
(* Memory-trainer action layer (src/src/actions/index.ts) over the four    *)
(* tables of src/db/tables.ts.                                             *)
(*                                                                         *)
(* Every `await db...` of a handler is one atomic store call; the code     *)
(* between two awaits runs with the store call that follows it.  A handler *)
(* occupies a request slot from the arrival of the request until its       *)
(* outcome (return value or thrown ActionError) has been sent.             *)
(*                                                                         *)
(*   Spec             all seven operations, requests served one at a time  *)
(*   SpecPerformance  upsertPerformance requests served concurrently       *)
(*   SpecSessions     startSession / completeSession served concurrently   *)
(*                                                                         *)
(* Timestamps (createdAt, startedAt, updatedAt) are not modelled; endedAt  *)
(* is NULL or the token "now".  The json/text columns that the handlers    *)
(* only copy (description, gameType, difficultyLevels, prompt, response)   *)
(* are represented by name (Games) and left out of Rounds.                 *)
(***************************************************************************)
EXTENDS Integers, Sequences, FiniteSets, TLC

VARIABLES
  games,        \* MemoryGames rows, row i has id i (autoIncrement, no delete)
  sessions,     \* MemorySessions rows
  rounds,       \* MemoryRounds rows
  performance,  \* MemoryPerformance rows
  pc,           \* per request slot: the store call the handler is about to make
  req,          \* per request slot: caller, input and rows read so far; once
                \* the handler has returned or thrown, the outcome
  sessionBy,    \* history: the caller whose request inserted each Session
  roundBy       \* history: the caller whose request inserted each Round

tables == <<games, sessions, rounds, performance>>
vars == <<games, sessions, rounds, performance, pc, req,
          sessionBy, roundBy>>

\* ------------------------------------------------------------------ bounds

MaxInserts == 2

\* ------------------------------------------------------------ value domains

NULL == "NULL"                  \* SQL NULL / JS undefined for a text value
Users == {"u1", "u2"}
Callers == Users \cup {NULL}    \* NULL: context.locals.user is not set
Procs == {"p1", "p2"}           \* concurrently served requests

NoFields == [k \in {} |-> TRUE]
Opt(k, S) == {NoFields} \cup {k :> v : v \in S}
Has(r, k) == k \in DOMAIN r
Get(r, k) == IF Has(r, k) THEN r[k] ELSE NULL

Idle == [user |-> NULL, input |-> NoFields]

\* ------------------------------------------------------------------ schema

\* the catalogue the store starts with: a shared game (ownerId null, "system")
\* and a game a user has authored
SystemGame == [ownerId |-> NULL, name |-> "a", isActive |-> TRUE]
UserGame == [ownerId |-> "u1", name |-> "a", isActive |-> TRUE]
SeedGames == <<SystemGame, UserGame>>

StatusEnum == {"in_progress", "completed", "abandoned"}

\* ---------------------------------------------------------- query helpers

\* eq() of astro:db renders `left = right`; under SQL three-valued logic a
\* comparison with NULL is never true, so eq(col, null) matches no row.
eq(left, right) == left # NULL /\ right # NULL /\ left = right

or(a, b) == a \/ b

\* where-clause of startSession and upsertPerformance on the owner column
OwnerOrSystem(g, user) == or(eq(g.ownerId, user), eq(g.ownerId, NULL))

\* where-clause of updateGame and listMyGames on the owner column
OwnedBy(g, user) == eq(g.ownerId, user)

\* where-clause of completeSession and recordRound
SessionOf(s, user) == eq(s.userId, user)

\* mutant: the sign-in check is skipped
requireUserSkipped(user) == TRUE

requireUser(user) == user # NULL

Unauthorized == [code |-> "UNAUTHORIZED",
                 message |-> "You must be signed in to perform this action."]
NotFound(msg) == [code |-> "NOT_FOUND", message |-> msg]
Ok == [code |-> "OK", message |-> ""]

\* the part of an input that says which rows the request addresses
Selector(input) ==
  [k \in DOMAIN input \cap {"id", "gameId", "sessionId", "includeInactive"} |->
     input[k]]

Returned(op, user, input, outcome, result) ==
  [op |-> op, user |-> user, input |-> Selector(input), code |-> outcome.code,
   message |-> outcome.message, result |-> result]

\* ------------------------------------------------------------------- Init

Init ==
  /\ games = SeedGames
  /\ sessions = << >>
  /\ rounds = << >>
  /\ performance = << >>
  /\ pc = [p \in Procs |-> "idle"]
  /\ req = [p \in Procs |-> Idle]
  /\ sessionBy = << >>
  /\ roundBy = << >>

\* ids a request may name: every existing id and one that does not exist
Ids(table) == 1 .. (Len(table) + 1)

\* a request arrives at a free slot
Receive(p) == pc[p] = "idle"

\* the inputs a caller sends: requireUser rejects an unauthenticated request
\* before its input is read, so one input stands for all of them
InputsOf(user, inputs) ==
  IF user = NULL THEN {CHOOSE i \in inputs : TRUE} ELSE inputs

\* requests that insert a row are accepted while the store has room for it
InsertLabels == {"startSession_insert", "recordRound_insert",
                 "upsertPerformance_select", "upsertPerformance_write"}
Inserted == Len(games) - Len(SeedGames) + Len(sessions) + Len(rounds)
            + Len(performance)
Room == Inserted + Cardinality({q \in Procs : pc[q] \in InsertLabels}) < MaxInserts

\* the handler returns or throws: the outcome waits to be sent to the client
Return(p, op, user, input, outcome, result) ==
  /\ pc' = [pc EXCEPT ![p] = "returned"]
  /\ req' = [req EXCEPT ![p] = Returned(op, user, input, outcome, result)]

\* the handler awaits its next store call
Await(p, label, r) ==
  /\ pc' = [pc EXCEPT ![p] = label]
  /\ req' = [req EXCEPT ![p] = r]

\* ------------------------------------------------------------- createGame

CreateGameInputs ==
  {[name |-> "a"] @@ a : a \in Opt("isActive", {TRUE, FALSE})}

NewGame(user, input) ==
  [ownerId |-> user, name |-> input.name,
   isActive |-> IF Has(input, "isActive") THEN input.isActive ELSE TRUE]

createGame(p) ==
  /\ Receive(p)
  /\ Room
  /\ \E user \in Callers : \E input \in InputsOf(user, CreateGameInputs) :
       IF ~requireUser(user)
       THEN /\ Return(p, "createGame", user, input, Unauthorized, {})
            /\ UNCHANGED games
       ELSE /\ games' = Append(games, NewGame(user, input))
            /\ Return(p, "createGame", user, input, Ok, {Len(games) + 1})
  /\ UNCHANGED <<sessions, rounds, performance, sessionBy, roundBy>>

\* ------------------------------------------------------------- updateGame

UpdateGameInputs ==
  {[id |-> i] @@ a : i \in Ids(games),
                     a \in Opt("name", {"b"}) \cup Opt("isActive", {TRUE, FALSE})}

\* const { id, ...rest } = input; keys whose value is not undefined
UpdateData(input) == [k \in DOMAIN input \ {"id"} |-> input[k]]

\* mutant: the lookup forgets the owner filter
GameFoundById(id, user) == id \in DOMAIN games

GameFound(id, user) == id \in DOMAIN games /\ OwnedBy(games[id], user)

updateGame(p) ==
  /\ Receive(p)
  /\ \E user \in Callers : \E input \in InputsOf(user, UpdateGameInputs) :
       IF ~requireUser(user)
       THEN Return(p, "updateGame", user, input, Unauthorized, {})
       ELSE IF ~GameFound(input.id, user)
       THEN Return(p, "updateGame", user, input, NotFound("Game not found."), {})
       ELSE IF DOMAIN UpdateData(input) = {}
       THEN Return(p, "updateGame", user, input, Ok, {input.id})
       ELSE Await(p, "updateGame_update", [user |-> user, input |-> input])
  /\ UNCHANGED <<games, sessions, rounds, performance, sessionBy, roundBy>>

UpdatedGames(id, user, data) ==
  [i \in DOMAIN games |->
     IF i = id /\ OwnedBy(games[i], user) THEN data @@ games[i] ELSE games[i]]

updateGame_update(p) ==
  /\ pc[p] = "updateGame_update"
  /\ games' = UpdatedGames(req[p].input.id, req[p].user, UpdateData(req[p].input))
  /\ Return(p, "updateGame", req[p].user, req[p].input, Ok, {req[p].input.id})
  /\ UNCHANGED <<sessions, rounds, performance, sessionBy, roundBy>>

\* ------------------------------------------------------------ listMyGames

ListMyGamesInputs == Opt("includeInactive", {TRUE, FALSE})

\* mutant: the isActive filter is applied whatever includeInactive says
MyGamesActiveOnly(user, input) ==
  {i \in DOMAIN games : OwnedBy(games[i], user) /\ games[i].isActive}

MyGames(user, input) ==
  LET includeInactive == IF Has(input, "includeInactive")
                         THEN input.includeInactive ELSE FALSE
      found == {i \in DOMAIN games : OwnedBy(games[i], user)}
  IN  IF includeInactive THEN found ELSE {i \in found : games[i].isActive}

listMyGames(p) ==
  /\ Receive(p)
  /\ \E user \in Callers : \E input \in InputsOf(user, ListMyGamesInputs) :
       IF ~requireUser(user)
       THEN Return(p, "listMyGames", user, input, Unauthorized, {})
       ELSE Return(p, "listMyGames", user, input, Ok, MyGames(user, input))
  /\ UNCHANGED <<games, sessions, rounds, performance, sessionBy, roundBy>>

\* ----------------------------------------------------------- startSession

StartSessionInputs ==
  {[gameId |-> g] @@ a : g \in Ids(games),
                         a \in {NoFields, [difficulty |-> "easy", meta |-> "m0"]}}

\* mutant: the lookup forgets the owner filter
GameAvailableToAnyone(gameId, user) ==
  gameId \in DOMAIN games /\ games[gameId].isActive

GameAvailable(gameId, user) ==
  /\ gameId \in DOMAIN games
  /\ OwnerOrSystem(games[gameId], user)
  /\ games[gameId].isActive

NewSession(user, input) ==
  [gameId |-> input.gameId, userId |-> user, status |-> "in_progress",
   totalScore |-> 0, difficulty |-> Get(input, "difficulty"),
   endedAt |-> NULL, meta |-> Get(input, "meta")]

startSession(p) ==
  /\ Receive(p)
  /\ Room
  /\ \E user \in Callers : \E input \in InputsOf(user, StartSessionInputs) :
       IF ~requireUser(user)
       THEN Return(p, "startSession", user, input, Unauthorized, {})
       ELSE IF ~GameAvailable(input.gameId, user)
       THEN Return(p, "startSession", user, input, NotFound("Game not available."), {})
       ELSE Await(p, "startSession_insert", [user |-> user, input |-> input])
  /\ UNCHANGED <<games, sessions, rounds, performance, sessionBy, roundBy>>

startSession_insert(p) ==
  /\ pc[p] = "startSession_insert"
  /\ sessions' = Append(sessions, NewSession(req[p].user, req[p].input))
  /\ sessionBy' = Append(sessionBy, req[p].user)
  /\ Return(p, "startSession", req[p].user, req[p].input, Ok, {Len(sessions) + 1})
  /\ UNCHANGED <<games, rounds, performance, roundBy>>

\* -------------------------------------------------------- completeSession

CompleteSessionInputs ==
  {[id |-> i] @@ a @@ b :
     i \in Ids(sessions),
     a \in {NoFields, [totalScore |-> 10, difficulty |-> "hard", meta |-> "m"]},
     b \in Opt("status", StatusEnum)}

\* mutant: the lookup also requires the Session to be in progress
SessionFoundInProgress(id, user) ==
  /\ id \in DOMAIN sessions
  /\ SessionOf(sessions[id], user)
  /\ sessions[id].status = "in_progress"

SessionFound(id, user) == id \in DOMAIN sessions /\ SessionOf(sessions[id], user)

\* mutant: endedAt is stamped only when the resulting status ends the Session
CompletedSessionEndsWhenDone(input, session, current) ==
  LET status == IF Has(input, "status") THEN input.status ELSE "completed"
  IN  [current EXCEPT
         !.totalScore = IF Has(input, "totalScore") THEN input.totalScore
                        ELSE session.totalScore,
         !.difficulty = IF Has(input, "difficulty") THEN input.difficulty
                        ELSE session.difficulty,
         !.status = status,
         !.endedAt = IF status = "in_progress" THEN current.endedAt ELSE "now",
         !.meta = IF Has(input, "meta") THEN input.meta ELSE session.meta]

\* the values of .set({...}): `input.x ?? session.x` reads the row as selected
CompletedSession(input, session, current) ==
  [current EXCEPT
     !.totalScore = IF Has(input, "totalScore") THEN input.totalScore
                    ELSE session.totalScore,
     !.difficulty = IF Has(input, "difficulty") THEN input.difficulty
                    ELSE session.difficulty,
     !.status = IF Has(input, "status") THEN input.status ELSE "completed",
     !.endedAt = "now",
     !.meta = IF Has(input, "meta") THEN input.meta ELSE session.meta]

completeSession(p) ==
  /\ Receive(p)
  /\ \E user \in Callers : \E input \in InputsOf(user, CompleteSessionInputs) :
       IF ~requireUser(user)
       THEN Return(p, "completeSession", user, input, Unauthorized, {})
       ELSE IF ~SessionFound(input.id, user)
       THEN Return(p, "completeSession", user, input, NotFound("Session not found."), {})
       ELSE Await(p, "completeSession_update",
                  [user |-> user, input |-> input, session |-> sessions[input.id]])
  /\ UNCHANGED <<games, sessions, rounds, performance, sessionBy, roundBy>>

completeSession_update(p) ==
  /\ pc[p] = "completeSession_update"
  /\ sessions' = [i \in DOMAIN sessions |->
                    IF i = req[p].input.id
                    THEN CompletedSession(req[p].input, req[p].session, sessions[i])
                    ELSE sessions[i]]
  /\ Return(p, "completeSession", req[p].user, req[p].input, Ok, {req[p].input.id})
  /\ UNCHANGED <<games, rounds, performance, sessionBy, roundBy>>

\* ------------------------------------------------------------ recordRound

RecordRoundInputs ==
  {[sessionId |-> i] @@ a :
     i \in Ids(sessions),
     a \in {NoFields, [roundNumber |-> 2, isCorrect |-> TRUE, score |-> 10]}}

NewRound(input) ==
  [sessionId |-> input.sessionId,
   roundNumber |-> IF Has(input, "roundNumber") THEN input.roundNumber ELSE 1,
   isCorrect |-> IF Has(input, "isCorrect") THEN input.isCorrect ELSE FALSE,
   score |-> IF Has(input, "score") THEN input.score ELSE 0]

recordRound(p) ==
  /\ Receive(p)
  /\ Room
  /\ \E user \in Callers : \E input \in InputsOf(user, RecordRoundInputs) :
       IF ~requireUser(user)
       THEN Return(p, "recordRound", user, input, Unauthorized, {})
       ELSE IF ~SessionFound(input.sessionId, user)
       THEN Return(p, "recordRound", user, input, NotFound("Session not found."), {})
       ELSE Await(p, "recordRound_insert", [user |-> user, input |-> input])
  /\ UNCHANGED <<games, sessions, rounds, performance, sessionBy, roundBy>>

recordRound_insert(p) ==
  /\ pc[p] = "recordRound_insert"
  /\ rounds' = Append(rounds, NewRound(req[p].input))
  /\ roundBy' = Append(roundBy, req[p].user)
  /\ Return(p, "recordRound", req[p].user, req[p].input, Ok, {Len(rounds) + 1})
  /\ UNCHANGED <<games, sessions, performance, sessionBy>>

\* ------------------------------------------------------ upsertPerformance

UpsertPerformanceInputs ==
  {[gameId |-> g] @@ a :
     g \in Ids(games),
     a \in {NoFields, [totalSessions |-> 5], [bestScore |-> 90],
            [averageScore |-> 70, difficultyPreference |-> "hard"]}}

GameAccessible(gameId, user) ==
  gameId \in DOMAIN games /\ OwnerOrSystem(games[gameId], user)

\* rows the select on (gameId, userId) matches; .limit(1) returns one of them
PerformanceOf(gameId, user) ==
  {i \in DOMAIN performance :
     performance[i].gameId = gameId /\ eq(performance[i].userId, user)}

NoRow == 0

\* mutant: the existing row is not merged in (`input.x ?? 0`)
BaseValuesWithoutExisting(user, input, existing) ==
  [gameId |-> input.gameId, userId |-> user,
   totalSessions |-> IF Has(input, "totalSessions") THEN input.totalSessions ELSE 0,
   averageScore |-> IF Has(input, "averageScore") THEN input.averageScore ELSE 0,
   bestScore |-> IF Has(input, "bestScore") THEN input.bestScore ELSE 0,
   difficultyPreference |-> Get(input, "difficultyPreference")]

\* `input.x ?? existing?.x ?? 0`, existing being the row read or undefined
BaseValues(user, input, existing) ==
  LET Num(k) == IF Has(input, k) THEN input[k]
                ELSE IF existing # NoFields THEN existing[k] ELSE 0
  IN  [gameId |-> input.gameId, userId |-> user,
       totalSessions |-> Num("totalSessions"),
       averageScore |-> Num("averageScore"),
       bestScore |-> Num("bestScore"),
       difficultyPreference |->
         IF Has(input, "difficultyPreference") THEN input.difficultyPreference
         ELSE IF existing # NoFields THEN existing.difficultyPreference ELSE NULL]

upsertPerformance(p) ==
  /\ Receive(p)
  /\ Room
  /\ \E user \in Callers : \E input \in InputsOf(user, UpsertPerformanceInputs) :
       IF ~requireUser(user)
       THEN Return(p, "upsertPerformance", user, input, Unauthorized, {})
       ELSE IF ~GameAccessible(input.gameId, user)
       THEN Return(p, "upsertPerformance", user, input, NotFound("Game not found."), {})
       ELSE Await(p, "upsertPerformance_select", [user |-> user, input |-> input])
  /\ UNCHANGED <<games, sessions, rounds, performance, sessionBy, roundBy>>

upsertPerformance_select(p) ==
  /\ pc[p] = "upsertPerformance_select"
  /\ LET found == PerformanceOf(req[p].input.gameId, req[p].user)
     IN  IF found = {}
         THEN Await(p, "upsertPerformance_write",
                    req[p] @@ [existingId |-> NoRow, existing |-> NoFields])
         ELSE \E i \in found :
                Await(p, "upsertPerformance_write",
                      req[p] @@ [existingId |-> i, existing |-> performance[i]])
  /\ UNCHANGED <<games, sessions, rounds, performance, sessionBy, roundBy>>

upsertPerformance_write(p) ==
  /\ pc[p] = "upsertPerformance_write"
  /\ LET baseValues == BaseValues(req[p].user, req[p].input, req[p].existing)
         id == req[p].existingId
     IN  IF id # NoRow
         THEN /\ performance' = [performance EXCEPT ![id] = baseValues]
              /\ Return(p, "upsertPerformance", req[p].user, req[p].input, Ok, {id})
         ELSE /\ performance' = Append(performance, baseValues)
              /\ Return(p, "upsertPerformance", req[p].user, req[p].input, Ok,
                        {Len(performance) + 1})
  /\ UNCHANGED <<games, sessions, rounds, sessionBy, roundBy>>

\* ------------------------------------------------------------------- Next

\* the outcome is sent and the slot is free again
respond(p) ==
  /\ pc[p] = "returned"
  /\ pc' = [pc EXCEPT ![p] = "idle"]
  /\ req' = [req EXCEPT ![p] = Idle]
  /\ UNCHANGED <<games, sessions, rounds, performance, sessionBy, roundBy>>

Step(p) ==
  \/ createGame(p)
  \/ updateGame(p)
  \/ updateGame_update(p)
  \/ listMyGames(p)
  \/ startSession(p)
  \/ startSession_insert(p)
  \/ completeSession(p)
  \/ completeSession_update(p)
  \/ recordRound(p)
  \/ recordRound_insert(p)
  \/ upsertPerformance(p)
  \/ upsertPerformance_select(p)
  \/ upsertPerformance_write(p)
  \/ respond(p)

\* requests served one at a time: each handler runs to its response before
\* the next request is received
Next == Step("p1")

Spec == Init /\ [][Next]_vars

\* upsertPerformance requests served concurrently: their store calls interleave
NextPerformance ==
  \E p \in Procs :
    \/ upsertPerformance(p)
    \/ upsertPerformance_select(p)
    \/ upsertPerformance_write(p)
    \/ respond(p)

SpecPerformance == Init /\ [][NextPerformance]_vars

\* startSession and completeSession requests served concurrently
NextSessions ==
  \E p \in Procs :
    \/ startSession(p)
    \/ startSession_insert(p)
    \/ completeSession(p)
    \/ completeSession_update(p)
    \/ respond(p)

SpecSessions == Init /\ [][NextSessions]_vars

\* ------------------------------------------------------------- properties

\* slot p receives a request for `op` in this step (its first store call is made)
Begins(p, op, first) ==
  /\ pc[p] = "idle"
  /\ \/ pc'[p] = first
     \/ pc'[p] = "returned" /\ req'[p].op = op

\* the handler in slot p returns or throws in this step
Returns(p, op) == pc[p] # "returned" /\ pc'[p] = "returned" /\ req'[p].op = op

Succeeded(p, op) == pc[p] = "returned" /\ req[p].op = op /\ req[p].code = "OK"
Failed(p, op, code) == pc[p] = "returned" /\ req[p].op = op /\ req[p].code = code

\* rows of a table that a step inserts or changes
Written(old, new) ==
  Cardinality({i \in DOMAIN new : i \notin DOMAIN old \/ new[i] # old[i]})

\* C1: at most one Performance row per (userId, gameId) in every reachable
\* state, also when the store calls of upsertPerformance requests interleave.
C1_OneRowPerUserAndGame ==
  \A i, j \in DOMAIN performance :
    (performance[i].userId = performance[j].userId
       /\ performance[i].gameId = performance[j].gameId) => i = j

\* C2: an upsertPerformance that is not interleaved with another request
\* leaves the (user, game) row with every numeric field equal to the supplied
\* value, else the value of the row that existed, else 0, and with
\* difficultyPreference equal to the supplied value, else the existing one,
\* else absent; it touches no other row.
C2_Expected(input, prior, k, default) ==
  IF Has(input, k) THEN input[k]
  ELSE IF prior # {} THEN performance[CHOOSE i \in prior : TRUE][k]
  ELSE default

C3_Available(gameId, u) ==
  /\ gameId \in DOMAIN games
  /\ games[gameId].isActive
  /\ games[gameId].ownerId \in {u, NULL}

C3_StartSessionIffAvailable ==
  [][\A p \in Procs :
       /\ (Begins(p, "startSession", "startSession_insert") /\ req'[p].user # NULL) =>
            IF C3_Available(req'[p].input.gameId, req'[p].user)
            THEN pc'[p] = "startSession_insert"
            ELSE /\ pc'[p] = "returned"
                 /\ req'[p].code = "NOT_FOUND"
                 /\ sessions' = sessions
       /\ (pc[p] = "startSession_insert" /\ pc'[p] # pc[p]) =>
            /\ Returns(p, "startSession") /\ req'[p].code = "OK"
            /\ Len(sessions') = Len(sessions) + 1
            /\ SubSeq(sessions', 1, Len(sessions)) = sessions
            /\ sessions'[Len(sessions')].userId = req[p].user
            /\ sessions'[Len(sessions')].status = "in_progress"
            /\ sessions'[Len(sessions')].endedAt = NULL
    ]_vars

\* C4: every successful completeSession leaves the Session with endedAt set;
\* its status is the supplied status, or completed when none is supplied.
C4_CompleteSetsEndedAt ==
  [][\A p \in Procs :
       (pc[p] = "completeSession_update" /\ pc'[p] # pc[p]) =>
         LET input == req[p].input
         IN  /\ Returns(p, "completeSession") /\ req'[p].code = "OK"
             /\ sessions'[input.id].endedAt # NULL
             /\ sessions'[input.id].status =
                  IF Has(input, "status") THEN input.status ELSE "completed"
    ]_vars

\* a completeSession with an explicit in_progress has stamped endedAt
C4_Witness ==
  \E p \in Procs :
    /\ Succeeded(p, "completeSession")
    /\ sessions[req[p].input.id].status = "in_progress"
    /\ sessions[req[p].input.id].endedAt # NULL

\* C5: updateGame by a caller who does not own the Game (another user's, a
\* system-owned one, or no Game with that id) fails with the one NotFound
\* error and changes no Game; a Game's fields are only ever changed by a
\* request of its owner, and its owner never changes.
C5_NotOwner(id, u) == id \notin DOMAIN games \/ games[id].ownerId # u

C5_OnlyOwnerUpdates ==
  [][/\ \A p \in Procs :
          (Begins(p, "updateGame", "updateGame_update") /\ req'[p].user # NULL
             /\ C5_NotOwner(req'[p].input.id, req'[p].user)) =>
            /\ pc'[p] = "returned"
            /\ req'[p].code = "NOT_FOUND"
            /\ req'[p].message = "Game not found."
            /\ games' = games
     /\ \A i \in DOMAIN games :
          /\ i \in DOMAIN games'
          /\ games'[i].ownerId = games[i].ownerId
          /\ games'[i] # games[i] =>
               \E p \in Procs : /\ pc[p] = "updateGame_update"
                                /\ Returns(p, "updateGame")
                                /\ req[p].input.id = i
                                /\ req[p].user = games[i].ownerId
    ]_vars

\* another user's request on an existing Game was answered NotFound
C5_Witness ==
  \E p \in Procs :
    /\ Failed(p, "updateGame", "NOT_FOUND")
    /\ req[p].input.id \in DOMAIN games
    /\ games[req[p].input.id].ownerId \in Users \ {req[p].user}

\* C6: listMyGames(u, includeInactive) returns exactly the Games owned by u
\* that are active or, with includeInactive, all of them; never a Game of
\* another user or a system-owned Game; and it changes no table.
C6_ListIsOwnGames ==
  [][\A p \in Procs :
       (Returns(p, "listMyGames") /\ req'[p].user # NULL) =>
         LET u == req'[p].user
             all == Has(req'[p].input, "includeInactive")
                      /\ req'[p].input.includeInactive
         IN  /\ req'[p].code = "OK"
             /\ req'[p].result =
                  {i \in DOMAIN games :
                     games[i].ownerId = u /\ (all \/ games[i].isActive)}
             /\ tables' = tables
    ]_vars

\* a list that holds an own Game, leaves out an own inactive Game, and leaves
\* out the system-owned Game
C6_Witness ==
  \E p \in Procs :
    /\ Succeeded(p, "listMyGames")
    /\ req[p].result # {}
    /\ \E i \in DOMAIN games \ req[p].result :
         games[i].ownerId = req[p].user /\ ~games[i].isActive
    /\ \E i \in DOMAIN games \ req[p].result : games[i].ownerId = NULL

\* C7: recordRound(sessionId) by caller u appends exactly one Round exactly
\* when a Session with that id exists and has userId u, whatever its status;
\* otherwise it fails with NotFound and appends nothing.  Every Round
\* references a Session owned by the user who created the Round, and no step
\* modifies or removes an existing Round.
C7_RoundsOfOwnSessions ==
  \A i \in DOMAIN rounds :
    /\ rounds[i].sessionId \in DOMAIN sessions
    /\ sessions[rounds[i].sessionId].userId = roundBy[i]

C7_OwnSession(sessionId, u) ==
  sessionId \in DOMAIN sessions /\ sessions[sessionId].userId = u

C7_RecordRoundOnOwnSession ==
  /\ []C7_RoundsOfOwnSessions
  /\ [][/\ \A p \in Procs :
             /\ (Begins(p, "recordRound", "recordRound_insert")
                   /\ req'[p].user # NULL) =>
                  IF C7_OwnSession(req'[p].input.sessionId, req'[p].user)
                  THEN pc'[p] = "recordRound_insert"
                  ELSE /\ pc'[p] = "returned"
                       /\ req'[p].code = "NOT_FOUND"
                       /\ rounds' = rounds
             /\ (pc[p] = "recordRound_insert" /\ pc'[p] # pc[p]) =>
                  /\ Returns(p, "recordRound") /\ req'[p].code = "OK"
                  /\ Len(rounds') = Len(rounds) + 1
                  /\ rounds'[Len(rounds')].sessionId = req[p].input.sessionId
                  /\ roundBy'[Len(rounds')] = req[p].user
        /\ \A i \in DOMAIN rounds : i \in DOMAIN rounds' /\ rounds'[i] = rounds[i]
        /\ rounds' # rounds =>
             \E p \in Procs : pc[p] = "recordRound_insert" /\ Returns(p, "recordRound")
       ]_vars

\* a Round was recorded against a Session that had already ended
C7_Witness ==
  \E p \in Procs :
    /\ Succeeded(p, "recordRound")
    /\ sessions[req[p].input.sessionId].status \in {"completed", "abandoned"}
    /\ \E i \in req[p].result : rounds[i].sessionId = req[p].input.sessionId

\* C8: a request that fails (Unauthorized, which every operation checks before
\* anything else, or NotFound) leaves the four tables as they were; a request
\* that succeeds writes at most one row, in the step in which it returns.
C8_FailureWritesNothing ==
  [][/\ \A p \in Procs :
          /\ (pc[p] = "idle" /\ pc'[p] # "idle" /\ req'[p].user = NULL) =>
               pc'[p] = "returned" /\ req'[p].code = "UNAUTHORIZED"
          /\ (pc[p] # "returned" /\ pc'[p] = "returned" /\ req'[p].code # "OK") =>
               /\ req'[p].code \in {"UNAUTHORIZED", "NOT_FOUND"}
               /\ tables' = tables
     /\ tables' # tables =>
          /\ \E p \in Procs :
               pc[p] # "returned" /\ pc'[p] = "returned" /\ req'[p].code = "OK"
          /\ Written(games, games') + Written(sessions, sessions')
               + Written(rounds, rounds') + Written(performance, performance') = 1
          /\ Len(games') >= Len(games) /\ Len(sessions') >= Len(sessions)
          /\ Len(rounds') >= Len(rounds) /\ Len(performance') >= Len(performance)
    ]_vars

\* an upsertPerformance was refused while the store already held written rows
C8_Witness ==
  \E p \in Procs :
    /\ Failed(p, "upsertPerformance", "NOT_FOUND")
    /\ performance # << >>

\* C9: a completeSession that does not supply totalScore (difficulty, meta)
\* leaves the stored totalScore (difficulty, meta) as it was immediately
\* before its write, also when another completeSession on the same Session
\* runs between its lookup and its update.
C9_OmittedFieldsKeepStoredValue ==
  [][\A p \in Procs :
       (pc[p] = "completeSession_update" /\ Returns(p, "completeSession")) =>
         \A k \in {"totalScore", "difficulty", "meta"} :
           ~Has(req[p].input, k) =>
             sessions'[req[p].input.id][k] = sessions[req[p].input.id][k]
    ]_vars

\* C10: every Session has the userId of the caller that started it, references
\* an existing Game that this user owns or that is system-owned, and has
\* endedAt set whenever its status is completed or abandoned.
C10_SessionInvariant ==
  \A i \in DOMAIN sessions :
    /\ sessions[i].userId = sessionBy[i]
    /\ sessions[i].gameId \in DOMAIN games
    /\ games[sessions[i].gameId].ownerId \in {sessions[i].userId, NULL}
    /\ sessions[i].status \in {"completed", "abandoned"} => sessions[i].endedAt # NULL

\* one Session has ended as completed; another carries endedAt while in_progress
C10_Witness ==
  /\ \E i \in DOMAIN sessions :
       sessions[i].status = "completed" /\ sessions[i].endedAt # NULL
  /\ \E i \in DOMAIN sessions :
       sessions[i].status = "in_progress" /\ sessions[i].endedAt # NULL
====
